---- MODULE Spec2Model ----
(***************************************************************************)
(* Model of script.py: normalisation of an imported mesh to a target block *)
(* (center_and_align) and the derivation of the five orthographic views    *)
(* (position_camera, set_render_settings, render_view, render_model).      *)
(*                                                                         *)
(* Python floats are modelled as exact rationals [k, n, d] in lowest terms *)
(* (k = "num"); the same record shape carries None (k = "none"), a key     *)
(* that is absent from a dict (k = "absent") and a local that has not been *)
(* assigned yet (k = "unset").  Rounding of IEEE doubles is not modelled.  *)
(***************************************************************************)
EXTENDS Integers, Sequences, FiniteSets

\* ---------------------------------------------------------------- bounds
MaxExt == 2
MaxTarget == 2
MaxRuns == 2

\* ------------------------------------------------------------ arithmetic
Abs(i) == IF i < 0 THEN -i ELSE i

RECURSIVE Gcd(_, _)
Gcd(a, b) == IF b = 0 THEN a ELSE Gcd(b, a % b)

Num(n, d) ==
    LET s == IF d < 0 THEN -1 ELSE 1
        g == Gcd(Abs(n), Abs(d))
    IN  [k |-> "num", n |-> (s * n) \div g, d |-> (s * d) \div g]

IntV(i)  == [k |-> "num", n |-> i, d |-> 1]
NoneV    == [k |-> "none", n |-> 0, d |-> 1]
AbsentV  == [k |-> "absent", n |-> 0, d |-> 1]
UnsetV   == [k |-> "unset", n |-> 0, d |-> 1]
Zero     == IntV(0)
One      == IntV(1)

IsNum(v) == v.k = "num"

Add(a, b) == Num(a.n * b.d + b.n * a.d, a.d * b.d)
Neg(a)    == [k |-> "num", n |-> -a.n, d |-> a.d]
Sub(a, b) == Add(a, Neg(b))
Mul(a, b) == Num(a.n * b.n, a.d * b.d)
Div(a, b) == Num(a.n * b.d, a.d * b.n)
Lt(a, b)  == a.n * b.d < b.n * a.d
Leq(a, b) == a.n * b.d <= b.n * a.d
Min2(a, b) == IF Lt(b, a) THEN b ELSE a
Max2(a, b) == IF Lt(a, b) THEN b ELSE a

\* min(...) / max(...) over a non-empty sequence, first extreme element wins
RECURSIVE MinSeq(_)
MinSeq(s) == IF Len(s) = 1 THEN s[1] ELSE Min2(s[1], MinSeq(Tail(s)))

RECURSIVE MaxSeq(_)
MaxSeq(s) == IF Len(s) = 1 THEN s[1] ELSE Max2(s[1], MaxSeq(Tail(s)))

\* int(x): truncation towards zero of the rational a / b, b > 0
TruncDiv(a, b) == IF a >= 0 THEN a \div b ELSE -((-a) \div b)

\* ------------------------------------------------------------- constants
XYZ   == {"x", "y", "z"}
Axes  == {"width", "depth", "height"}

\* CONFIG["views"]: insertion order and the axis pair of every view
ViewOrder == <<"front", "back", "left", "right", "top">>
Views == [front |-> [width |-> "width", height |-> "height"],
          back  |-> [width |-> "width", height |-> "height"],
          left  |-> [width |-> "depth", height |-> "height"],
          right |-> [width |-> "depth", height |-> "height"],
          top   |-> [width |-> "width", height |-> "depth"]]

Vec(x, y, z) == [x |-> x, y |-> y, z |-> z]
ZeroVec == Vec(Zero, Zero, Zero)
VAdd(u, v) == [c \in XYZ |-> Add(u[c], v[c])]
VNeg(u) == [c \in XYZ |-> Neg(u[c])]
VScale(s, u) == [c \in XYZ |-> Mul(s, u[c])]

VARIABLES
    entry,          \* how the run is entered: "main", "render_model", "center_and_align"
    model_file,     \* state of the --model path: "ok", "missing", "badext"
    import_ok,      \* whether import_model finds a mesh object
    block,          \* block_width / block_height / block_depth arguments
    dpi,            \* config["dpi"]
    pc,             \* position of the run
    err,            \* the exception that ended the run, "none" otherwise
    runs,           \* number of calls of center_and_align so far
    mesh_lo,        \* mesh data: lower corner of the local bounds
    mesh_hi,        \* mesh data: upper corner of the local bounds
    obj_scale,      \* obj.scale (uniform)
    obj_location,   \* obj.location
    target_dims,    \* argument of center_and_align
    bbox,           \* local bbox of center_and_align (8 corners), <<>> before
    model_sizes,    \* local model_sizes
    final_target_dims, \* local final_target_dims
    scale,          \* local scale
    center,         \* local center
    scaled_dims,    \* local scaled_dims
    frame_scale,    \* scale of the block_frame object, unset before
    ortho_scale,    \* cam.data.ortho_scale
    resolution_x,   \* scene.render.resolution_x as assigned
    resolution_y,   \* scene.render.resolution_y as assigned
    rendered        \* views rendered so far, in order

vars == <<entry, model_file, import_ok, block, dpi, pc, err, runs, mesh_lo,
          mesh_hi, obj_scale, obj_location, target_dims, bbox, model_sizes,
          final_target_dims, scale, center, scaled_dims, frame_scale,
          ortho_scale, resolution_x, resolution_y, rendered>>

inputVars == <<entry, model_file, import_ok, block, dpi>>
meshVars  == <<mesh_lo, mesh_hi, obj_scale, obj_location>>
localVars == <<bbox, model_sizes, final_target_dims, scale, center, scaled_dims>>
viewVars  == <<frame_scale, ortho_scale, resolution_x, resolution_y, rendered>>

UnsetDict == [a \in Axes |-> UnsetV]

\* ---------------------------------------------------------------- inputs
Entries == {"main", "render_model", "center_and_align"}
TargetVals == {IntV(i) : i \in -1 .. MaxTarget}
ArgVals == TargetVals \cup {NoneV}
DictVals == TargetVals \cup {NoneV, AbsentV}
DpiVals == {-1, 0, 300}
\* transform of the object as imported: <<location, scale>>
ImportXf == {<<0, 1>>, <<1, 2>>}

\* mesh bounds for the grid of small extents
GridLo == [c \in XYZ |-> IntV(1)]

InitCommon ==
    /\ err = "none"
    /\ runs = 0
    /\ bbox = <<>>
    /\ model_sizes = UnsetDict
    /\ final_target_dims = UnsetDict
    /\ scale = UnsetV
    /\ center = [c \in XYZ |-> UnsetV]
    /\ scaled_dims = UnsetDict
    /\ frame_scale = [c \in XYZ |-> UnsetV]
    /\ ortho_scale = UnsetV
    /\ resolution_x = UnsetV
    /\ resolution_y = UnsetV
    /\ rendered = <<>>

InitGrid ==
    /\ entry \in Entries
    /\ model_file \in IF entry = "main" THEN {"ok", "missing", "badext"} ELSE {"ok"}
    /\ import_ok \in IF entry = "render_model" THEN BOOLEAN ELSE {TRUE}
    /\ dpi \in IF entry = "render_model" THEN DpiVals ELSE {300}
    /\ IF entry = "center_and_align"
         THEN /\ block = [a \in Axes |-> NoneV]
              /\ target_dims \in [Axes -> DictVals]
         ELSE /\ block \in [Axes -> ArgVals]
              /\ target_dims = [a \in Axes |-> AbsentV]
    /\ pc = entry
    /\ mesh_lo = GridLo
    /\ \E e \in [XYZ -> 0 .. MaxExt] :
          mesh_hi = [c \in XYZ |-> IntV(1 + e[c])]
    /\ \E xf \in ImportXf :
          /\ obj_location = [c \in XYZ |-> IntV(xf[1])]
          /\ obj_scale = IntV(xf[2])

\* the worked scenario: extents 50 x 80 x 30 (width, height, depth), width 100
InitScenario ==
    /\ entry = "render_model"
    /\ model_file = "ok"
    /\ import_ok = TRUE
    /\ dpi = 300
    /\ block = [width |-> IntV(100), height |-> NoneV, depth |-> NoneV]
    /\ target_dims = [a \in Axes |-> AbsentV]
    /\ pc = entry
    /\ mesh_lo = Vec(IntV(-10), IntV(0), IntV(5))
    /\ mesh_hi = Vec(IntV(40), IntV(30), IntV(85))
    /\ obj_location = Vec(IntV(3), IntV(0), IntV(0))
    /\ obj_scale = One

Init == InitCommon /\ (InitGrid \/ InitScenario)

\* ------------------------------------------------------------ operations
\* an exception leaves the run: main() catches it and exits with status 1,
\* render_model logs and re-raises, center_and_align just raises
FailSwallowed(e) ==
    /\ err' = e
    /\ pc' = "solve"

Fail(e) ==
    /\ err' = e
    /\ pc' = IF entry = "main" THEN "exit1" ELSE "raised"

\* the validation of the block dimensions at the end of parse_arguments
NoDimension(b) == \A a \in Axes : b[a] = NoneV
NonPositiveStrict(v) == v # NoneV /\ Lt(v, Zero)

NonPositive(v) == v # NoneV /\ Leq(v, Zero)

ParseArguments ==
    /\ pc = "main"
    /\ IF model_file = "missing" THEN Fail("ModelMissing")
       ELSE IF model_file = "badext" THEN Fail("BadExtension")
       ELSE IF NoDimension(block) THEN Fail("NoDimension")
       ELSE IF \E a \in Axes : NonPositive(block[a]) THEN Fail("NonPositiveDimension")
       ELSE pc' = "render_model" /\ err' = err
    /\ UNCHANGED <<inputVars, runs, meshVars, target_dims, localVars, viewVars>>

\* the dict comprehension of render_model: None arguments are left out
TargetDimsOf(b) == [a \in Axes |-> IF b[a] # NoneV THEN b[a] ELSE AbsentV]

RenderModelBegin ==
    /\ pc = "render_model"
    /\ IF ~import_ok
         THEN Fail("NoMesh") /\ UNCHANGED target_dims
         ELSE /\ target_dims' = TargetDimsOf(block)
              /\ pc' = "center_and_align"
              /\ err' = err
    /\ UNCHANGED <<inputVars, runs, meshVars, localVars, viewVars>>

\* obj.bound_box: the 8 corners of the local bounds, in Blender's order
BoundBox(lo, hi) ==
    << Vec(lo.x, lo.y, lo.z), Vec(lo.x, lo.y, hi.z), Vec(lo.x, hi.y, hi.z),
       Vec(lo.x, hi.y, lo.z), Vec(hi.x, lo.y, lo.z), Vec(hi.x, lo.y, hi.z),
       Vec(hi.x, hi.y, hi.z), Vec(hi.x, hi.y, lo.z) >>

\* obj.matrix_world @ corner for every corner of obj.bound_box
GetBoundingBox(lo, hi, s, loc) ==
    LET bb == BoundBox(lo, hi)
    IN  [i \in 1 .. 8 |-> VAdd(loc, VScale(s, bb[i]))]

Coord(box, c) == [i \in 1 .. Len(box) |-> box[i][c]]

\* bpy.ops.object.transform_apply(scale=True): the scale goes into the mesh
AppliedLo(lo, hi, s) == [c \in XYZ |-> Min2(Mul(s, lo[c]), Mul(s, hi[c]))]
AppliedHiForgotten(lo, hi, s) == hi

AppliedHi(lo, hi, s) == [c \in XYZ |-> Max2(Mul(s, lo[c]), Mul(s, hi[c]))]

\* lines 163-165
CA_Apply ==
    /\ pc = "center_and_align"
    /\ runs' = runs + 1
    /\ mesh_lo' = AppliedLo(mesh_lo, mesh_hi, obj_scale)
    /\ mesh_hi' = AppliedHi(mesh_lo, mesh_hi, obj_scale)
    /\ obj_scale' = One
    /\ obj_location' = ZeroVec
    /\ bbox' = <<>>
    /\ model_sizes' = UnsetDict
    /\ final_target_dims' = UnsetDict
    /\ scale' = UnsetV
    /\ center' = [c \in XYZ |-> UnsetV]
    /\ scaled_dims' = UnsetDict
    /\ pc' = "measure"
    /\ UNCHANGED <<inputVars, err, target_dims, viewVars>>

ModelSizes(box) ==
    [width  |-> Sub(MaxSeq(Coord(box, "x")), MinSeq(Coord(box, "x"))),
     depth  |-> Sub(MaxSeq(Coord(box, "y")), MinSeq(Coord(box, "y"))),
     height |-> Sub(MaxSeq(Coord(box, "z")), MinSeq(Coord(box, "z")))]

ZeroSizeWidthOnly(sizes) == sizes["width"] = Zero

ZeroSize(sizes) == \E a \in Axes : sizes[a] = Zero

\* lines 167-178
CA_Measure ==
    /\ pc = "measure"
    /\ bbox' = GetBoundingBox(mesh_lo, mesh_hi, obj_scale, obj_location)
    /\ model_sizes' = ModelSizes(bbox')
    /\ IF ZeroSize(model_sizes')
         THEN Fail("DegenerateMesh")
         ELSE pc' = "solve" /\ err' = err
    /\ UNCHANGED <<inputVars, runs, meshVars, target_dims, final_target_dims,
                   scale, center, scaled_dims, viewVars>>

\* line 185: the keys whose value is not None
Provided(t) == {a \in Axes : IsNum(t[a])}

RECURSIVE SeqOfSet(_)
SeqOfSet(S) == IF S = {} THEN <<>>
               ELSE LET a == CHOOSE x \in S : TRUE
                    IN  <<a>> \o SeqOfSet(S \ {a})

\* lines 190-191
Scales(t, sizes) == LET p == SeqOfSet(Provided(t))
                    IN  [i \in 1 .. Len(p) |-> Div(t[p[i]], sizes[p[i]])]
SolveScale(t, sizes) == MinSeq(Scales(t, sizes))

\* line 193: dict.get returns the stored value for every key that is present
GetOr(t, a, default) == IF t[a] = AbsentV THEN default ELSE t[a]

FinalTargetDims(t, sizes, s) ==
    [a \in Axes |-> GetOr(t, a, Mul(sizes[a], s))]

\* lines 180-193
CA_Solve ==
    /\ pc = "solve"
    /\ IF Provided(target_dims) = {}
         THEN /\ final_target_dims' = model_sizes
              /\ scale' = One
              /\ pc' = "apply_scale" /\ err' = err
         ELSE IF \E a \in Provided(target_dims) : model_sizes[a] = Zero
         THEN Fail("ZeroDivisionError") /\ UNCHANGED <<final_target_dims, scale>>
         ELSE /\ scale' = SolveScale(target_dims, model_sizes)
              /\ final_target_dims' = FinalTargetDims(target_dims, model_sizes, scale')
              /\ pc' = "apply_scale" /\ err' = err
    /\ UNCHANGED <<inputVars, runs, meshVars, target_dims, bbox, model_sizes,
                   center, scaled_dims, viewVars>>

\* lines 196-198
CA_Scale ==
    /\ pc = "apply_scale"
    /\ mesh_lo' = AppliedLo(mesh_lo, mesh_hi, scale)
    /\ mesh_hi' = AppliedHi(mesh_lo, mesh_hi, scale)
    /\ obj_scale' = One
    /\ pc' = "center"
    /\ UNCHANGED <<inputVars, err, runs, obj_location, target_dims, localVars, viewVars>>

RECURSIVE VSum(_)
VSum(box) == IF box = <<>> THEN ZeroVec ELSE VAdd(box[1], VSum(Tail(box)))

Centroid(box) == VScale(Num(1, 8), VSum(box))

RefetchedStale(old, lo, hi, s, loc) == old

\* line 199: the box is fetched again, the box of line 168 is dropped
Refetched(old, lo, hi, s, loc) == GetBoundingBox(lo, hi, s, loc)

\* lines 199-202
CA_Center ==
    /\ pc = "center"
    /\ bbox' = Refetched(bbox, mesh_lo, mesh_hi, obj_scale, obj_location)
    /\ center' = Centroid(bbox')
    /\ obj_location' = VNeg(center')
    /\ pc' = "return"
    /\ UNCHANGED <<inputVars, err, runs, mesh_lo, mesh_hi, obj_scale, target_dims,
                   model_sizes, final_target_dims, scale, scaled_dims, viewVars>>

ScaledDims(sizes, s) == [a \in Axes |-> Mul(sizes[a], s)]

\* lines 204-206
CA_Return ==
    /\ pc = "return"
    /\ scaled_dims' = ScaledDims(model_sizes, scale)
    /\ pc' = IF entry = "center_and_align" THEN "returned" ELSE "render_setup"
    /\ UNCHANGED <<inputVars, err, runs, meshVars, target_dims, bbox, model_sizes,
                   final_target_dims, scale, center, viewVars>>

\* a caller normalises the object again, to the dimensions it got back
Renormalize ==
    /\ pc = "returned"
    /\ runs < MaxRuns
    /\ target_dims' = final_target_dims
    /\ pc' = "center_and_align"
    /\ UNCHANGED <<inputVars, err, runs, meshVars, localVars, viewVars>>

Half(v) == Mul(v, Num(1, 2))

\* lines 337-346: add_block_frame and the scene set-up before the views
RenderSetup ==
    /\ pc = "render_setup"
    /\ frame_scale' = Vec(Half(final_target_dims["width"]),
                          Half(final_target_dims["depth"]),
                          Half(final_target_dims["height"]))
    /\ pc' = "views"
    /\ UNCHANGED <<inputVars, err, runs, meshVars, target_dims, localVars,
                   ortho_scale, resolution_x, resolution_y, rendered>>

OrthoScaleTopHeight(view_name, dimensions) ==
    IF view_name \in {"front", "back"}
      THEN Max2(dimensions["width"], dimensions["height"])
    ELSE IF view_name \in {"left", "right"}
      THEN Max2(dimensions["depth"], dimensions["height"])
    ELSE Max2(dimensions["width"], dimensions["height"])

OrthoScale(view_name, dimensions) ==
    IF view_name \in {"front", "back"}
      THEN Max2(dimensions["width"], dimensions["height"])
    ELSE IF view_name \in {"left", "right"}
      THEN Max2(dimensions["depth"], dimensions["height"])
    ELSE Max2(dimensions["width"], dimensions["depth"])

PixelsRounded(mm, d) == IntV((2 * mm.n * d * 10 + mm.d * 254) \div (2 * mm.d * 254))

\* int(mm * dpi / 25.4)
Pixels(mm, d) == IntV(TruncDiv(mm.n * d * 10, mm.d * 254))

\* lines 308-315, with position_camera and set_render_settings
RenderView ==
    /\ pc = "views"
    /\ LET view_name == ViewOrder[Len(rendered) + 1]
           width_mm  == final_target_dims[Views[view_name]["width"]]
           height_mm == final_target_dims[Views[view_name]["height"]]
       IN  /\ ortho_scale' = OrthoScale(view_name, final_target_dims)
           /\ resolution_x' = Pixels(width_mm, dpi)
           /\ resolution_y' = Pixels(height_mm, dpi)
           /\ rendered' = Append(rendered, view_name)
    /\ pc' = IF Len(rendered') = Len(ViewOrder) THEN "done" ELSE "views"
    /\ UNCHANGED <<inputVars, err, runs, meshVars, target_dims, localVars, frame_scale>>

Next ==
    \/ ParseArguments
    \/ RenderModelBegin
    \/ CA_Apply
    \/ CA_Measure
    \/ CA_Solve
    \/ CA_Scale
    \/ CA_Center
    \/ CA_Return
    \/ Renormalize
    \/ RenderSetup
    \/ RenderView

Spec == Init /\ [][Next]_vars

TypeOK == pc \in {"main", "render_model", "center_and_align", "measure", "solve",
                  "apply_scale", "center", "return", "returned", "render_setup",
                  "views", "done", "raised", "exit1"}

\* ---------------------------------------------------------------- claims
Set(t) == {a \in Axes : t[a] \notin {NoneV, AbsentV}}
Positive(v) == IsNum(v) /\ v.n > 0
AxisOf == [width |-> "x", depth |-> "y", height |-> "z"]

\* the envelope the run was entered with
Envelope == IF entry = "center_and_align" THEN target_dims ELSE TargetDimsOf(block)
InvalidEnvelope(t) == Set(t) = {} \/ \E a \in Set(t) : ~Positive(t[a])
ValidEnvelope(t) == ~InvalidEnvelope(t)

SolvedPcs == {"apply_scale", "center", "return", "returned", "render_setup", "views", "done"}
CenteredPcs == {"return", "returned", "render_setup", "views", "done"}
ReturnedPcs == {"returned", "render_setup", "views", "done"}
FailedPcs == {"raised", "exit1"}

\* C1: on positive extents and an envelope with at least one axis set, every
\* set axis positive, scale is the least ratio T[a]/E[a] over the set axes, every set axis
\* of final_target_dims is the target, every unset axis (absent or None) is
\* E[a] * scale, and all three axes are numbers.
C1_ScaleSolver ==
    (pc \in SolvedPcs /\ ValidEnvelope(target_dims))
    => /\ IsNum(scale)
       /\ \A a \in Set(target_dims) :
             Leq(Mul(scale, model_sizes[a]), target_dims[a])
       /\ \E a \in Set(target_dims) :
             Mul(scale, model_sizes[a]) = target_dims[a]
       /\ \A a \in Axes :
             /\ IsNum(final_target_dims[a])
             /\ a \in Set(target_dims) => final_target_dims[a] = target_dims[a]
             /\ a \notin Set(target_dims)
                   => final_target_dims[a] = Mul(model_sizes[a], scale)

\* C2: for a valid envelope the returned dictionaries satisfy
\* scaled_dims[a] <= final_target_dims[a] on every axis, with equality on one.
C2_FitsEnvelope ==
    (pc \in ReturnedPcs /\ ValidEnvelope(target_dims))
    => /\ \A a \in Axes :
             /\ IsNum(final_target_dims[a])
             /\ Leq(scaled_dims[a], final_target_dims[a])
       /\ \E a \in Axes : scaled_dims[a] = final_target_dims[a]

\* C3: normalising again, with all three axes of the envelope set to the
\* final dimensions of the previous normalisation, gives scale 1 and the same
\* final dimensions.
C3_FixedPoint ==
    (runs >= 2 /\ pc \in SolvedPcs /\ \A a \in Axes : Positive(target_dims[a]))
    => /\ scale = One
       /\ final_target_dims = target_dims

C3_Witness ==
    /\ runs = 2
    /\ pc = "returned"
    /\ \A a \in Axes : Positive(target_dims[a])
    /\ \E a \in Axes : scaled_dims[a] # final_target_dims[a]
    /\ \E c \in XYZ : Sub(mesh_hi[c], mesh_lo[c]) \notin {IntV(i) : i \in 0 .. 2 * MaxExt}

\* C4: once center_and_align has centred the object, the uniform scale is
\* already committed to the mesh, the box used for centring is the box of the
\* mesh in that state, the translation is minus the mean of its corners, and
\* the world bounding box of the object is centred on the origin.
C4_CenteredAfterScale ==
    pc \in CenteredPcs
    => /\ obj_scale = One
       /\ \A a \in Axes :
             Sub(mesh_hi[AxisOf[a]], mesh_lo[AxisOf[a]])
                = Mul(model_sizes[a], IF Lt(scale, Zero) THEN Neg(scale) ELSE scale)
       /\ bbox = BoundBox(mesh_lo, mesh_hi)
       /\ \A c \in XYZ :
             /\ Mul(IntV(2), center[c]) = Add(mesh_lo[c], mesh_hi[c])
             /\ Add(obj_location[c], center[c]) = Zero
             /\ Add(Add(mesh_lo[c], obj_location[c]), Add(mesh_hi[c], obj_location[c])) = Zero

C4_Witness ==
    /\ pc = "returned"
    /\ scale \notin {One, Zero}
    /\ \A c \in XYZ : center[c] # Zero

\* C5: a zero extent on any axis ends center_and_align with the degenerate
\* mesh error before a ratio is computed and before a scale is assigned;
\* nothing is returned.
C5_DegenerateRejected ==
    (\E a \in Axes : model_sizes[a] = Zero)
    => /\ pc \in FailedPcs
       /\ err = "DegenerateMesh"
       /\ scale = UnsetV
       /\ final_target_dims = UnsetDict
       /\ scaled_dims = UnsetDict
       /\ obj_scale = One

C5_Witness ==
    /\ pc = "raised"
    /\ err = "DegenerateMesh"
    /\ model_sizes["width"] # Zero
    /\ model_sizes["height"] = Zero
    /\ Set(target_dims) = {"width"}

\* C6 as stated: an envelope with no axis set, or with a set axis that is 0
\* or negative, is never used to scale the mesh, whichever way the
\* normalisation is entered.
C6_EnvelopeRejected ==
    (runs <= 1 /\ InvalidEnvelope(Envelope)) => scale = UnsetV

\* C6 amended: entered through main, such an envelope is rejected by
\* parse_arguments before anything is normalised; render_model and
\* center_and_align entered directly do not reject it: without a set axis the
\* scale is 1 and the final dimensions are the extents, and a set axis that
\* is 0 or negative takes part in the scale like any other.
C6_MainRejects ==
    /\ (entry = "main" /\ InvalidEnvelope(Envelope))
       => /\ pc \in {"main", "exit1"}
          /\ runs = 0
          /\ scale = UnsetV
          /\ pc = "exit1" =>
                err = IF model_file = "missing" THEN "ModelMissing"
                      ELSE IF model_file = "badext" THEN "BadExtension"
                      ELSE IF Set(Envelope) = {} THEN "NoDimension"
                      ELSE "NonPositiveDimension"
    /\ (entry # "main" /\ runs = 1 /\ pc \in SolvedPcs /\ InvalidEnvelope(Envelope))
       => IF Set(Envelope) = {}
            THEN scale = One /\ final_target_dims = model_sizes
            ELSE \E a \in Set(Envelope) : Mul(scale, model_sizes[a]) = Envelope[a]

C6_Witness ==
    /\ entry = "main"
    /\ model_file = "ok"
    /\ pc = "exit1"
    /\ err = "NonPositiveDimension"
    /\ \E a \in Axes : block[a] = Zero
    /\ \A a \in Axes : block[a] = NoneV \/ ~Lt(block[a], Zero)

\* C7: with a dpi that is 0 or negative no pixel dimensions are assigned to
\* the scene and no view is rendered (stated for runs whose envelope is valid,
\* so that nothing but the dpi is wrong with the input).
C7_InvalidDpiRejected ==
    (dpi <= 0 /\ ValidEnvelope(Envelope))
    => /\ resolution_x = UnsetV
       /\ resolution_y = UnsetV
       /\ rendered = <<>>

LastView == rendered[Len(rendered)]
WidthMm == final_target_dims[Views[LastView]["width"]]
HeightMm == final_target_dims[Views[LastView]["height"]]

\* p = floor(mm * d / 25.4), stated without division
IsFloor(p, mm, d) ==
    /\ p.d = 1
    /\ p.n * 254 * mm.d <= mm.n * d * 10
    /\ mm.n * d * 10 < (p.n + 1) * 254 * mm.d

\* p = ceiling(mm * d / 25.4), stated without division
IsCeiling(p, mm, d) ==
    /\ p.d = 1
    /\ (p.n - 1) * 254 * mm.d < mm.n * d * 10
    /\ mm.n * d * 10 <= p.n * 254 * mm.d

\* C8: for every view and every dpi > 0 the pixel dimensions are the floor of
\* mm * dpi / 25.4 of the two final dimensions that the view's axis mapping
\* selects, truncated and never rounded up; 100 x 160 mm at 300 dpi is
\* 1181 x 1889.  The final dimensions of a normalisation result are lengths;
\* a negative one, which only an envelope with a negative axis produces, is
\* truncated towards zero as well.
C8_PixelFloor ==
    (rendered # <<>> /\ dpi > 0)
    => /\ IF ~Lt(WidthMm, Zero) THEN IsFloor(resolution_x, WidthMm, dpi)
                                ELSE IsCeiling(resolution_x, WidthMm, dpi)
       /\ IF ~Lt(HeightMm, Zero) THEN IsFloor(resolution_y, HeightMm, dpi)
                                 ELSE IsCeiling(resolution_y, HeightMm, dpi)
       /\ (LastView = "front" /\ dpi = 300 /\ WidthMm = IntV(100) /\ HeightMm = IntV(160))
             => resolution_x = IntV(1181) /\ resolution_y = IntV(1889)

C8_Witness ==
    /\ rendered = <<"front">>
    /\ dpi = 300
    /\ final_target_dims = [width |-> IntV(100), height |-> IntV(160), depth |-> IntV(60)]
    /\ resolution_x = IntV(1181)
    /\ resolution_y = IntV(1889)

\* C9: for every view the ortho scale of the camera is the larger of the two
\* final dimensions that CONFIG["views"] gives the view as render width and
\* render height.
C9_OrthoScale ==
    rendered # <<>>
    => /\ ortho_scale \in {WidthMm, HeightMm}
       /\ Leq(WidthMm, ortho_scale)
       /\ Leq(HeightMm, ortho_scale)

C9_Witness ==
    /\ pc = "done"
    /\ LastView = "top"
    /\ Lt(final_target_dims["width"], final_target_dims["depth"])
    /\ Lt(final_target_dims["depth"], final_target_dims["height"])
    /\ ortho_scale = final_target_dims["depth"]

\* C10: once a run of render_model has raised the degenerate mesh error or an
\* envelope error, no view is rendered and neither the uniform scale nor the
\* centring translation is applied to the mesh.
C10_NoPartialResult ==
    (entry # "center_and_align"
        /\ err \in {"DegenerateMesh", "NoDimension", "NonPositiveDimension"})
    => /\ pc \in FailedPcs
       /\ rendered = <<>>
       /\ resolution_x = UnsetV
       /\ scale = UnsetV
       /\ center = [c \in XYZ |-> UnsetV]
       /\ err = "DegenerateMesh"
            => /\ obj_location = ZeroVec
               /\ \A a \in Axes :
                     Sub(mesh_hi[AxisOf[a]], mesh_lo[AxisOf[a]]) = model_sizes[a]

C10_Witness ==
    /\ entry = "render_model"
    /\ pc = "raised"
    /\ err = "DegenerateMesh"
    /\ ValidEnvelope(Envelope)
    /\ dpi = 300

====
